---- MODULE Spec2Model ----
(***************************************************************************)
(* Model of discord-timestamp (src/src/main.rs): a command line is parsed  *)
(* into a Cli value, the input text is parsed into a naive date-time by    *)
(* three attempts, the naive date-time is placed in the machine's zone,    *)
(* the Unix seconds are rendered in Discord markup and written out.        *)
(*                                                                         *)
(* Text is a sequence of one-character strings; style tokens, which are    *)
(* only compared as wholes, are strings.                                   *)
(***************************************************************************)
EXTENDS Integers, Sequences, FiniteSets, TLC

VARIABLES argv, zone, pc, args, now, datetime, local, unix, formatted,
          stdout, clipboard, exit

vars == <<argv, zone, pc, args, now, datetime, local, unix, formatted,
          stdout, clipboard, exit>>

(***************************************************************************)
(* Bounds                                                                  *)
(***************************************************************************)
\* Fixed-offset machine zones range over -MaxOffsetHours..MaxOffsetHours.
MaxOffsetHours == 1

(***************************************************************************)
(* Style: the enumeration, its codes, its parser and its formatter         *)
(***************************************************************************)
Style == {"Default", "ShortTime", "LongTime", "ShortDate", "LongDate",
          "ShortDateTime", "LongDateTime", "RelativeTime"}

\* The variants in declaration order.
StyleOrder == <<"Default", "ShortTime", "LongTime", "ShortDate", "LongDate",
                "ShortDateTime", "LongDateTime", "RelativeTime">>

\* "<t:1543392060" : the common prefix of the Discord Format column.
HelpPrefix == <<"<", "t", ":", "1", "5", "4", "3", "3", "9", "2", "0", "6", "0">>

STYLE_HELP ==
  << [name |-> "default", alias |-> "",
      format |-> HelpPrefix \o <<">">>,
      out12 |-> "November 28, 2018 9:01 AM", out24 |-> "28 November 2018 09:01"],
     [name |-> "short-time", alias |-> "t",
      format |-> HelpPrefix \o <<":", "t", ">">>,
      out12 |-> "9:01 AM", out24 |-> "09:01"],
     [name |-> "long-time", alias |-> "T",
      format |-> HelpPrefix \o <<":", "T", ">">>,
      out12 |-> "9:01:00 AM", out24 |-> "09:01:00"],
     [name |-> "short-date", alias |-> "d",
      format |-> HelpPrefix \o <<":", "d", ">">>,
      out12 |-> "11/28/2018", out24 |-> "28/11/2018"],
     [name |-> "long-date", alias |-> "D",
      format |-> HelpPrefix \o <<":", "D", ">">>,
      out12 |-> "November 28, 2018", out24 |-> "28 November 2018"],
     [name |-> "short-date-time", alias |-> "f",
      format |-> HelpPrefix \o <<":", "f", ">">>,
      out12 |-> "November 28, 2018 9:01 AM", out24 |-> "28 November 2018 09:01"],
     [name |-> "long-date-time", alias |-> "F",
      format |-> HelpPrefix \o <<":", "F", ">">>,
      out12 |-> "Wednesday, November 28, 2018 9:01 AM",
      out24 |-> "Wednesday, 28 November 2018 09:01"],
     [name |-> "relative-time", alias |-> "R",
      format |-> HelpPrefix \o <<":", "R", ">">>,
      out12 |-> "3 years ago", out24 |-> "3 years ago"] >>

\* Style::code
code(self) ==
  CASE self = "Default"       -> ""
    [] self = "ShortTime"     -> "t"
    [] self = "LongTime"      -> "T"
    [] self = "ShortDate"     -> "d"
    [] self = "LongDate"      -> "D"
    [] self = "ShortDateTime" -> "f"
    [] self = "LongDateTime"  -> "F"
    [] self = "RelativeTime"  -> "R"

\* The tokens listed by the error message of Style::parse, in its order.
ParseErrorMessage ==
  <<"default", "short-time", "t", "long-time", "T", "short-date", "d",
    "long-date", "D", "short-date-time", "f", "long-date-time", "F",
    "relative-time", "R">>

StyleOk(st) == [ok |-> TRUE, style |-> st, msg |-> <<>>]

StyleErr == [ok |-> FALSE, style |-> "Default", msg |-> ParseErrorMessage]

\* Style::parse with the arms of "d" and "D" exchanged.
parse_CaseSwapped(s) ==
  CASE s = "default"         -> StyleOk("Default")
    [] s = "t"               -> StyleOk("ShortTime")
    [] s = "short-time"      -> StyleOk("ShortTime")
    [] s = "T"               -> StyleOk("LongTime")
    [] s = "long-time"       -> StyleOk("LongTime")
    [] s = "d"               -> StyleOk("LongDate")
    [] s = "short-date"      -> StyleOk("ShortDate")
    [] s = "D"               -> StyleOk("ShortDate")
    [] s = "long-date"       -> StyleOk("LongDate")
    [] s = "f"               -> StyleOk("ShortDateTime")
    [] s = "short-date-time" -> StyleOk("ShortDateTime")
    [] s = "F"               -> StyleOk("LongDateTime")
    [] s = "long-date-time"  -> StyleOk("LongDateTime")
    [] s = "R"               -> StyleOk("RelativeTime")
    [] s = "relative-time"   -> StyleOk("RelativeTime")
    [] OTHER                 -> StyleErr

\* Style::parse accepting Default's empty code as a token.
parse_EmptyIsDefault(s) ==
  CASE s \in {"default", ""} -> StyleOk("Default")
    [] s = "t"               -> StyleOk("ShortTime")
    [] s = "short-time"      -> StyleOk("ShortTime")
    [] s = "T"               -> StyleOk("LongTime")
    [] s = "long-time"       -> StyleOk("LongTime")
    [] s = "d"               -> StyleOk("ShortDate")
    [] s = "short-date"      -> StyleOk("ShortDate")
    [] s = "D"               -> StyleOk("LongDate")
    [] s = "long-date"       -> StyleOk("LongDate")
    [] s = "f"               -> StyleOk("ShortDateTime")
    [] s = "short-date-time" -> StyleOk("ShortDateTime")
    [] s = "F"               -> StyleOk("LongDateTime")
    [] s = "long-date-time"  -> StyleOk("LongDateTime")
    [] s = "R"               -> StyleOk("RelativeTime")
    [] s = "relative-time"   -> StyleOk("RelativeTime")
    [] OTHER                 -> StyleErr

\* Style::parse
parse(s) ==
  CASE s = "default"         -> StyleOk("Default")
    [] s = "t"               -> StyleOk("ShortTime")
    [] s = "short-time"      -> StyleOk("ShortTime")
    [] s = "T"               -> StyleOk("LongTime")
    [] s = "long-time"       -> StyleOk("LongTime")
    [] s = "d"               -> StyleOk("ShortDate")
    [] s = "short-date"      -> StyleOk("ShortDate")
    [] s = "D"               -> StyleOk("LongDate")
    [] s = "long-date"       -> StyleOk("LongDate")
    [] s = "f"               -> StyleOk("ShortDateTime")
    [] s = "short-date-time" -> StyleOk("ShortDateTime")
    [] s = "F"               -> StyleOk("LongDateTime")
    [] s = "long-date-time"  -> StyleOk("LongDateTime")
    [] s = "R"               -> StyleOk("RelativeTime")
    [] s = "relative-time"   -> StyleOk("RelativeTime")
    [] OTHER                 -> StyleErr

\* Display of one decimal digit.
DigitChar(d) ==
  CASE d = 0 -> "0" [] d = 1 -> "1" [] d = 2 -> "2" [] d = 3 -> "3"
    [] d = 4 -> "4" [] d = 5 -> "5" [] d = 6 -> "6" [] d = 7 -> "7"
    [] d = 8 -> "8" [] d = 9 -> "9"

RECURSIVE NatDisplay(_)
NatDisplay(n) ==
  IF n < 10 THEN <<DigitChar(n)>>
  ELSE NatDisplay(n \div 10) \o <<DigitChar(n % 10)>>

\* Display of an i64 as "{}" renders it.
I64Display(n) == IF n < 0 THEN <<"-">> \o NatDisplay(-n) ELSE NatDisplay(n)

\* The text of a style code: empty or one character.
CodeText(c) == IF c = "" THEN <<>> ELSE <<c>>

\* Style::get_formatted with one arm for all variants.
get_formatted_AlwaysCode(self, u) ==
  <<"<", "t", ":">> \o I64Display(u) \o <<":">> \o CodeText(code(self))
    \o <<">">>

\* Style::get_formatted
get_formatted(self, u) ==
  CASE self = "Default" -> <<"<", "t", ":">> \o I64Display(u) \o <<">">>
    [] self \in {"ShortTime", "LongTime", "ShortDate", "LongDate",
                 "ShortDateTime", "LongDateTime", "RelativeTime"} ->
         <<"<", "t", ":">> \o I64Display(u) \o <<":">> \o CodeText(code(self))
           \o <<">">>

(***************************************************************************)
(* chrono as main.rs uses it: calendar arithmetic                          *)
(***************************************************************************)
IsLeap(y) == (y % 4 = 0 /\ y % 100 # 0) \/ y % 400 = 0

DaysInMonth(y, m) ==
  IF m = 2 THEN (IF IsLeap(y) THEN 29 ELSE 28)
  ELSE IF m \in {4, 6, 9, 11} THEN 30 ELSE 31

\* Days from 1970-01-01 to the proleptic Gregorian date y-m-d.
DaysFromCivil(y, m, d) ==
  LET yy  == IF m <= 2 THEN y - 1 ELSE y
      era == yy \div 400
      yoe == yy - era * 400
      mp  == (m + 9) % 12
      doy == (153 * mp + 2) \div 5 + d - 1
      doe == yoe * 365 + yoe \div 4 - yoe \div 100 + doy
  IN  era * 146097 + doe - 719468

\* The date that lies z days after 1970-01-01.
CivilFromDays(z) ==
  LET zz  == z + 719468
      era == zz \div 146097
      doe == zz - era * 146097
      yoe == (doe - doe \div 1460 + doe \div 36524 - doe \div 146096) \div 365
      doy == doe - (365 * yoe + yoe \div 4 - yoe \div 100)
      mp  == (5 * doy + 2) \div 153
      d   == doy - (153 * mp + 2) \div 5 + 1
      m   == IF mp < 10 THEN mp + 3 ELSE mp - 9
      y   == yoe + era * 400
  IN  [year |-> IF m <= 2 THEN y + 1 ELSE y, month |-> m, day |-> d]

\* NaiveDate::and_hms_opt: None when the time of day is out of range.
and_hms_opt(date, h, mi, s) ==
  IF h \in 0..23 /\ mi \in 0..59 /\ s \in 0..59
  THEN [some |-> TRUE,
        dt |-> [year |-> date.year, month |-> date.month, day |-> date.day,
                hour |-> h, minute |-> mi, second |-> s, nano |-> 0]]
  ELSE [some |-> FALSE,
        dt |-> [year |-> date.year, month |-> date.month, day |-> date.day,
                hour |-> 0, minute |-> 0, second |-> 0, nano |-> 0]]

\* NaiveDateTime::new
NaiveDateTimeNew(date, time) ==
  [year |-> date.year, month |-> date.month, day |-> date.day,
   hour |-> time.hour, minute |-> time.minute, second |-> time.second,
   nano |-> time.nano]

DateOf(dt) == [year |-> dt.year, month |-> dt.month, day |-> dt.day]

TimeOf(dt) == [hour |-> dt.hour, minute |-> dt.minute, second |-> dt.second,
               nano |-> dt.nano]

\* Seconds from 1970-01-01T00:00:00 to the naive date-time read as UTC.
NaiveSecs(dt) ==
  DaysFromCivil(dt.year, dt.month, dt.day) * 86400
    + dt.hour * 3600 + dt.minute * 60 + dt.second

(***************************************************************************)
(* chrono as main.rs uses it: parsing text against a format                *)
(***************************************************************************)
Digits == {"0", "1", "2", "3", "4", "5", "6", "7", "8", "9"}

DigitVal(c) ==
  CASE c = "0" -> 0 [] c = "1" -> 1 [] c = "2" -> 2 [] c = "3" -> 3
    [] c = "4" -> 4 [] c = "5" -> 5 [] c = "6" -> 6 [] c = "7" -> 7
    [] c = "8" -> 8 [] c = "9" -> 9

Drop(s, k) == SubSeq(s, k + 1, Len(s))

RECURSIVE TrimStart(_)
TrimStart(s) ==
  IF s # <<>> /\ Head(s) = " " THEN TrimStart(Tail(s)) ELSE s

\* The number of leading digits of s, at most max.
RECURSIVE CountDigits(_, _)
CountDigits(s, max) ==
  IF max = 0 \/ s = <<>> THEN 0
  ELSE IF Head(s) \notin Digits THEN 0
  ELSE 1 + CountDigits(Tail(s), max - 1)

RECURSIVE NumVal(_, _)
NumVal(s, k) == IF k = 0 THEN 0 ELSE NumVal(s, k - 1) * 10 + DigitVal(s[k])

RECURSIVE Pow10(_)
Pow10(k) == IF k = 0 THEN 1 ELSE 10 * Pow10(k - 1)

\* scan::number once the k leading digits of s are counted.
Scanned(s, k, min) ==
  IF k < min THEN [err |-> "Invalid", val |-> 0, rest |-> s]
  ELSE [err |-> "", val |-> NumVal(s, k), rest |-> Drop(s, k)]

\* scan::number: between min and max digits.
ScanNumber(s, min, max) ==
  IF Len(s) < min THEN [err |-> "TooShort", val |-> 0, rest |-> s]
  ELSE Scanned(s, CountDigits(s, max), min)

\* scan::nanosecond once the k leading digits of s, at most nine, are
\* counted: they are scaled to nanoseconds and further digits are skipped.
ScannedNanosecond(s, k) ==
  IF k < 1 THEN [err |-> "Invalid", val |-> 0, rest |-> s]
  ELSE [err |-> "", val |-> NumVal(s, k) * Pow10(9 - k),
        rest |-> Drop(s, k + CountDigits(Drop(s, k), Len(s)))]

\* scan::nanosecond
ScanNanosecond(s) ==
  IF Len(s) < 1 THEN [err |-> "TooShort", val |-> 0, rest |-> s]
  ELSE ScannedNanosecond(s, CountDigits(s, 9))

\* The fields collected while parsing (format::Parsed).
EmptyParsed ==
  [has |-> {}, year |-> 0, month |-> 0, day |-> 0, hour |-> 0, minute |-> 0,
   second |-> 0, nano |-> 0]

FieldOf(item) ==
  CASE item = "%Y" -> "year"   [] item = "%m" -> "month"  [] item = "%d" -> "day"
    [] item = "%H" -> "hour"   [] item = "%M" -> "minute" [] item = "%S" -> "second"
    [] item = "%.f" -> "nano"

\* The values Parsed::set_* accepts for a field.
InFieldRange(f, v) ==
  CASE f = "year"   -> v >= -262143 /\ v <= 262142
    [] f = "month"  -> v >= 1 /\ v <= 12
    [] f = "day"    -> v >= 1 /\ v <= 31
    [] f = "hour"   -> v >= 0 /\ v <= 23
    [] f = "minute" -> v >= 0 /\ v <= 59
    [] f = "second" -> v >= 0 /\ v <= 60
    [] f = "nano"   -> v >= 0 /\ v <= 999999999

\* Parsed::set_*: range check, then set_if_consistent.
SetField(p, f, v) ==
  IF ~InFieldRange(f, v) THEN [err |-> "OutOfRange", parsed |-> p]
  ELSE IF f \in p.has /\ p[f] # v THEN [err |-> "Impossible", parsed |-> p]
  ELSE [err |-> "", parsed |-> [[p EXCEPT ![f] = v] EXCEPT !.has = @ \cup {f}]]

\* The negation of a scanned number.
Negated(r) == [err |-> r.err, val |-> 0 - r.val, rest |-> r.rest]

\* The number an item reads: a signed year of up to four digits (any number
\* after an explicit sign), or an unsigned number of up to two digits.
ScanNumeric(item, s) ==
  IF item = "%Y"
  THEN IF s # <<>> /\ Head(s) = "-"
       THEN Negated(ScanNumber(Tail(s), 1, Len(s)))
       ELSE IF s # <<>> /\ Head(s) = "+"
       THEN ScanNumber(Tail(s), 1, Len(s))
       ELSE ScanNumber(s, 1, 4)
  ELSE ScanNumber(s, 1, 2)

\* The outcome of an item whose field has been set with outcome q.
Stored(q, rest) == [err |-> q.err, rest |-> rest, parsed |-> q.parsed]

\* The outcome of an item that scanned r from s for the field f.
SetItem(r, s, p, f) ==
  IF r.err # "" THEN [err |-> r.err, rest |-> s, parsed |-> p]
  ELSE Stored(SetField(p, f, r.val), r.rest)

\* format::parse, one item: a space item skips white space, a numeric item
\* skips white space and reads a number into its field, "%.f" reads a
\* fraction if a dot follows, any other item is a literal character.
ParseItem(s, item, p) ==
  IF item = " " THEN [err |-> "", rest |-> TrimStart(s), parsed |-> p]
  ELSE IF item \in {"%Y", "%m", "%d", "%H", "%M", "%S"}
  THEN SetItem(ScanNumeric(item, TrimStart(s)), s, p, FieldOf(item))
  ELSE IF item = "%.f"
  THEN IF s # <<>> /\ Head(s) = "."
       THEN SetItem(ScanNanosecond(Tail(s)), s, p, "nano")
       ELSE [err |-> "", rest |-> s, parsed |-> p]
  ELSE IF s = <<>> THEN [err |-> "TooShort", rest |-> s, parsed |-> p]
  ELSE IF Head(s) # item THEN [err |-> "Invalid", rest |-> s, parsed |-> p]
  ELSE [err |-> "", rest |-> Tail(s), parsed |-> p]

\* format::parse: consume s item by item, stopping at the first error;
\* trailing input is an error.
RECURSIVE ParseItems(_, _, _)
RECURSIVE ParseRest(_, _)
ParseItems(s, items, p) ==
  IF items = <<>>
  THEN [err |-> IF s = <<>> THEN "" ELSE "TooLong", parsed |-> p]
  ELSE ParseRest(ParseItem(s, Head(items), p), Tail(items))

\* format::parse after an item with outcome st.
ParseRest(st, items) ==
  IF st.err # "" THEN [err |-> st.err, parsed |-> st.parsed]
  ELSE ParseItems(st.rest, items, st.parsed)

ZeroDateTime ==
  [year |-> 1970, month |-> 1, day |-> 1, hour |-> 0, minute |-> 0,
   second |-> 0, nano |-> 0]

ZeroDate == DateOf(ZeroDateTime)

ZeroTime == TimeOf(ZeroDateTime)

\* Parsed::to_naive_date
to_naive_date(p) ==
  IF ~({"year", "month", "day"} \subseteq p.has)
  THEN [err |-> "NotEnough", date |-> ZeroDate]
  ELSE IF p.day > DaysInMonth(p.year, p.month)
  THEN [err |-> "OutOfRange", date |-> ZeroDate]
  ELSE [err |-> "", date |-> [year |-> p.year, month |-> p.month, day |-> p.day]]

\* Parsed::to_naive_time: seconds default to zero, second 60 is a leap second.
to_naive_time(p) ==
  IF ~({"hour", "minute"} \subseteq p.has)
  THEN [err |-> "NotEnough", time |-> ZeroTime]
  ELSE IF "second" \notin p.has /\ "nano" \in p.has
  THEN [err |-> "NotEnough", time |-> ZeroTime]
  ELSE LET sec == IF "second" \in p.has THEN p.second ELSE 0
           ns  == IF "nano" \in p.has THEN p.nano ELSE 0
       IN  [err |-> "",
            time |-> [hour |-> p.hour, minute |-> p.minute,
                      second |-> IF sec = 60 THEN 59 ELSE sec,
                      nano |-> IF sec = 60 THEN ns + 1000000000 ELSE ns]]

Ok(dt) == [ok |-> TRUE, dt |-> dt, err |-> ""]

Err(e) == [ok |-> FALSE, dt |-> ZeroDateTime, err |-> e]

\* Parsed::to_naive_datetime_with_offset from the resolved date d and time
\* t: the error of the date comes first.
ResolvedDateTime(d, t) ==
  IF d.err # "" THEN Err(d.err)
  ELSE IF t.err # "" THEN Err(t.err)
  ELSE Ok(NaiveDateTimeNew(d.date, t.time))

ResolveDateTime(r) ==
  IF r.err # "" THEN Err(r.err)
  ELSE ResolvedDateTime(to_naive_date(r.parsed), to_naive_time(r.parsed))

\* NaiveDateTime::parse_from_str
NaiveDateTime_parse_from_str(s, fmt) ==
  ResolveDateTime(ParseItems(s, fmt, EmptyParsed))

ResolvedDate(d) ==
  IF d.err # "" THEN Err(d.err) ELSE Ok(NaiveDateTimeNew(d.date, ZeroTime))

ResolveDate(r) ==
  IF r.err # "" THEN Err(r.err) ELSE ResolvedDate(to_naive_date(r.parsed))

\* NaiveDate::parse_from_str; the result carries the date in dt.
NaiveDate_parse_from_str(s, fmt) ==
  ResolveDate(ParseItems(s, fmt, EmptyParsed))

ResolvedTime(t) ==
  IF t.err # "" THEN Err(t.err) ELSE Ok(NaiveDateTimeNew(ZeroDate, t.time))

ResolveTime(r) ==
  IF r.err # "" THEN Err(r.err) ELSE ResolvedTime(to_naive_time(r.parsed))

\* NaiveTime::parse_from_str; the result carries the time of day in dt.
NaiveTime_parse_from_str(s, fmt) ==
  ResolveTime(ParseItems(s, fmt, EmptyParsed))

(***************************************************************************)
(* chrono as main.rs uses it: the machine's zone (chrono::Local)           *)
(***************************************************************************)
\* A machine zone is a standard offset in seconds east of UTC and, when dst
\* holds, one daylight-saving period in 2018 during which the offset is one
\* hour more: local clocks jump from 02:00 to 03:00 on 2018-03-25 and fall
\* back from 03:00 to 02:00 on 2018-10-28.
Zones ==
  {[std |-> h * 3600, dst |-> FALSE] : h \in (0 - MaxOffsetHours)..MaxOffsetHours}
    \cup {[std |-> 3600, dst |-> TRUE]}

At(y, mo, d, h, mi, s) ==
  NaiveSecs([year |-> y, month |-> mo, day |-> d, hour |-> h, minute |-> mi,
             second |-> s, nano |-> 0])

\* Local wall-clock bounds of the skipped hour and of the repeated hour.
GapStart == At(2018, 3, 25, 2, 0, 0)

GapEnd == At(2018, 3, 25, 3, 0, 0)

OverlapStart == At(2018, 10, 28, 2, 0, 0)

OverlapEnd == At(2018, 10, 28, 3, 0, 0)

\* TimeZone::offset_from_utc_datetime for Local: the offset in force at a
\* UTC instant.
offset_from_utc(z, utc) ==
  IF z.dst /\ utc >= GapStart - z.std /\ utc < OverlapEnd - (z.std + 3600)
  THEN z.std + 3600
  ELSE z.std

\* TimeZone::offset_from_local_datetime for Local at the wall-clock second
\* count t: None inside the skipped hour, Ambiguous inside the repeated
\* hour, Single otherwise.
offset_from_local(z, t) ==
  IF z.dst /\ t >= GapStart /\ t < GapEnd
  THEN [kind |-> "None", offset |-> 0]
  ELSE IF z.dst /\ t >= OverlapStart /\ t < OverlapEnd
  THEN [kind |-> "Ambiguous", offset |-> z.std + 3600]
  ELSE IF z.dst /\ t >= GapEnd /\ t < OverlapStart
  THEN [kind |-> "Single", offset |-> z.std + 3600]
  ELSE [kind |-> "Single", offset |-> z.std]

\* FixedOffset::east_opt: None outside (-86400, 86400).
east_opt(secs) == [some |-> secs > -86400 /\ secs < 86400, offset |-> secs]

\* Local::from_offset as a zone of the fixed offset given.
Local_from_offset_Fixed(offset, machine) == [std |-> offset, dst |-> FALSE]

\* Local::from_offset: Local is a unit type standing for the machine's zone;
\* the offset argument is discarded.
Local_from_offset(offset, machine) == machine

\* The LocalResult of DateTime<Local> built from an offset result r.
Zoned(r, dt) == [kind |-> r.kind, value |-> [naive |-> dt, offset |-> r.offset]]

\* TimeZone::from_local_datetime: a LocalResult of DateTime<Local>.
from_local_datetime(z, dt) == Zoned(offset_from_local(z, NaiveSecs(dt)), dt)

\* Utc::now().date_naive() in place of Local::now().date_naive().
LocalToday_Utc(z, utc) == CivilFromDays(utc \div 86400)

\* Local::now().date_naive(): the calendar date on the machine's wall clock
\* at the UTC instant utc.
LocalToday(z, utc) == CivilFromDays((utc + offset_from_utc(z, utc)) \div 86400)

\* DateTime::timestamp: seconds since the epoch of the instant.
timestamp(d) == NaiveSecs(d.naive) - d.offset

\* DateTime::timestamp_millis, an i64 held as the pair (secs, millis) that
\* stands for secs * 1000 + millis with millis >= 0.
timestamp_millis(d) ==
  [secs |-> timestamp(d), millis |-> d.naive.nano \div 1000000]

\* Rust's integer division: the quotient rounded toward zero (b > 0).
RustDiv(a, b) == IF a >= 0 THEN a \div b ELSE 0 - ((0 - a) \div b)

\* q * 1000 + r divided by 1000 in Rust, for r in 0..999: a negative q is
\* rewritten as (q + 1) * 1000 + (r - 1000), both parts of one sign, and
\* the low part is divided.
CarriedDiv1000(q, r) ==
  IF q >= 0 THEN q + RustDiv(r, 1000)
  ELSE (q + 1) + RustDiv(r - 1000, 1000)

\* (secs * 1000 + millis) / 1000 in Rust: the pair is first carried into
\* whole seconds and a rest in 0..999.
MillisDiv1000(m) == CarriedDiv1000(m.secs + m.millis \div 1000, m.millis % 1000)

(***************************************************************************)
(* Cli                                                                     *)
(***************************************************************************)
\* "%Y-%m-%d %H:%M:%S", the default of --datetime-format
Fmt_DateTime == <<"%Y", "-", "%m", "-", "%d", " ", "%H", ":", "%M", ":", "%S">>

\* "%Y-%m-%d", the default of --date-format
Fmt_Date == <<"%Y", "-", "%m", "-", "%d">>

\* "%H:%M:%S", the default of --time-format
Fmt_Time == <<"%H", ":", "%M", ":", "%S">>

\* "%Y-%m-%d %H:%M:%S%.f", a format a user may pass
Fmt_Fraction == Fmt_DateTime \o <<"%.f">>

\* The value of date.and_hms_opt(..).unwrap() as a result of
\* get_naive_datetime: a panic when the option is None.
Unwrapped(opt) == [res |-> Ok(opt.dt), read_clock |-> FALSE, panic |-> ~opt.some]

\* The three attempts of get_naive_datetime in the order date, datetime,
\* time.
DateFirst(dt, date, time, today) ==
  IF date.ok THEN Unwrapped(and_hms_opt(DateOf(date.dt), 0, 0, 0))
  ELSE IF dt.ok THEN [res |-> dt, read_clock |-> FALSE, panic |-> FALSE]
  ELSE IF time.ok
  THEN [res |-> Ok(NaiveDateTimeNew(today, TimeOf(time.dt))),
        read_clock |-> TRUE, panic |-> FALSE]
  ELSE [res |-> Err(time.err), read_clock |-> FALSE, panic |-> FALSE]

\* The three attempts with and_hms_opt(24, 0, 0) for the date.
Hms24(dt, date, time, today) ==
  IF dt.ok THEN [res |-> dt, read_clock |-> FALSE, panic |-> FALSE]
  ELSE IF date.ok THEN Unwrapped(and_hms_opt(DateOf(date.dt), 24, 0, 0))
  ELSE IF time.ok
  THEN [res |-> Ok(NaiveDateTimeNew(today, TimeOf(time.dt))),
        read_clock |-> TRUE, panic |-> FALSE]
  ELSE [res |-> Err(time.err), read_clock |-> FALSE, panic |-> FALSE]

\* Cli::get_naive_datetime once the outcomes dt, date and time of the three
\* parse calls are known: the first success in that order, the date at
\* 00:00:00, the time on today's date, or the error of the time attempt.
FirstSuccess(dt, date, time, today) ==
  IF dt.ok THEN [res |-> dt, read_clock |-> FALSE, panic |-> FALSE]
  ELSE IF date.ok THEN Unwrapped(and_hms_opt(DateOf(date.dt), 0, 0, 0))
  ELSE IF time.ok
  THEN [res |-> Ok(NaiveDateTimeNew(today, TimeOf(time.dt))),
        read_clock |-> TRUE, panic |-> FALSE]
  ELSE [res |-> Err(time.err), read_clock |-> FALSE, panic |-> FALSE]

\* Cli::get_naive_datetime with the date attempt made first.
get_naive_datetime_DateFirst(self, today) ==
  DateFirst(NaiveDateTime_parse_from_str(self.input, self.datetime_format),
            NaiveDate_parse_from_str(self.input, self.date_format),
            NaiveTime_parse_from_str(self.input, self.time_format), today)

\* Cli::get_naive_datetime with and_hms_opt(24, 0, 0) for the end of the day.
get_naive_datetime_Hms24(self, today) ==
  Hms24(NaiveDateTime_parse_from_str(self.input, self.datetime_format),
        NaiveDate_parse_from_str(self.input, self.date_format),
        NaiveTime_parse_from_str(self.input, self.time_format), today)

\* Cli::get_naive_datetime.  today is the value Local::now().date_naive()
\* has if the closure runs; in the result read_clock tells whether it ran,
\* panic whether the unwrap of and_hms_opt met None.
get_naive_datetime(self, today) ==
  FirstSuccess(NaiveDateTime_parse_from_str(self.input, self.datetime_format),
               NaiveDate_parse_from_str(self.input, self.date_format),
               NaiveTime_parse_from_str(self.input, self.time_format), today)

(***************************************************************************)
(* The command lines, clocks and machines considered                       *)
(***************************************************************************)
\* "2018-11-28 09:01:00"
In_DateTime ==
  <<"2", "0", "1", "8", "-", "1", "1", "-", "2", "8", " ", "0", "9", ":",
    "0", "1", ":", "0", "0">>

\* "2018-11-28"
In_Date == <<"2", "0", "1", "8", "-", "1", "1", "-", "2", "8">>

\* "09:01:00"
In_Time == <<"0", "9", ":", "0", "1", ":", "0", "0">>

\* "bogus"
In_Bogus == <<"b", "o", "g", "u", "s">>

\* "1969-12-31 23:59:58.500"
In_Fraction ==
  <<"1", "9", "6", "9", "-", "1", "2", "-", "3", "1", " ", "2", "3", ":",
    "5", "9", ":", "5", "8", ".", "5", "0", "0">>

\* "1970-01-01 00:00:00"
In_Epoch ==
  <<"1", "9", "7", "0", "-", "0", "1", "-", "0", "1", " ", "0", "0", ":",
    "0", "0", ":", "0", "0">>

\* "2018-03-25 02:30:00"
In_Gap ==
  <<"2", "0", "1", "8", "-", "0", "3", "-", "2", "5", " ", "0", "2", ":",
    "3", "0", ":", "0", "0">>

\* "2018-10-28 02:30:00"
In_Overlap ==
  <<"2", "0", "1", "8", "-", "1", "0", "-", "2", "8", " ", "0", "2", ":",
    "3", "0", ":", "0", "0">>

\* "2018-11-28 09"
In_Partial ==
  <<"2", "0", "1", "8", "-", "1", "1", "-", "2", "8", " ", "0", "9">>

\* "2018-02-30"
In_BadDay == <<"2", "0", "1", "8", "-", "0", "2", "-", "3", "0">>

Inputs ==
  {In_DateTime, In_Date, In_Time, In_Bogus, In_Fraction, In_Epoch, In_Gap,
   In_Overlap, In_Partial, In_BadDay}

DefaultFormats == {Fmt_DateTime, Fmt_Date, Fmt_Time}

\* The (datetime, date, time) format triples: every assignment of the three
\* default formats to the three options, and the fractional format in each
\* position.
FormatTriples ==
  (DefaultFormats \X DefaultFormats \X DefaultFormats)
    \cup {<<Fmt_Fraction, Fmt_Date, Fmt_Time>>,
          <<Fmt_Date, Fmt_Fraction, Fmt_Time>>,
          <<Fmt_Time, Fmt_Date, Fmt_Fraction>>}

\* Style tokens a user may type: the fifteen the parser names and four it
\* does not.
Tokens ==
  {"default", "short-time", "t", "long-time", "T", "short-date", "d",
   "long-date", "D", "short-date-time", "f", "long-date-time", "F",
   "relative-time", "R", "bogus", "", "Default", "r"}

\* The effective command lines, after defaults and environment overrides,
\* built from the given input texts, style tokens and format triples; the
\* first positional may be absent.
CommandLines(inputs, tokens, triples) ==
  {[input |-> i, style |-> t, copy_to_clipboard |-> c,
    datetime_format |-> f[1], date_format |-> f[2], time_format |-> f[3],
    help_style |-> h] :
     i \in {[present |-> TRUE, text |-> x] : x \in inputs}
             \cup {[present |-> FALSE, text |-> <<>>]},
     t \in tokens, c \in BOOLEAN, f \in triples, h \in BOOLEAN}

\* Every input under every format triple, in the default style, in one
\* coded style and with one unknown token.
Argvs == CommandLines(Inputs, {"default", "R", "bogus"}, FormatTriples)

\* Every style token, with inputs before, at and after the epoch read under
\* the default formats and under the fractional datetime format.
StyleArgvs ==
  CommandLines({In_DateTime, In_Fraction, In_Epoch}, Tokens,
               {<<Fmt_DateTime, Fmt_Date, Fmt_Time>>,
                <<Fmt_Fraction, Fmt_Date, Fmt_Time>>})

\* UTC instants at which the program may run: midday, half an hour before
\* and half an hour after a UTC midnight.
Nows ==
  {At(2018, 11, 28, 12, 0, 0), At(2018, 11, 28, 23, 30, 0),
   At(2018, 11, 29, 0, 30, 0)}

(***************************************************************************)
(* main                                                                    *)
(***************************************************************************)
\* " copied to clipboard!"
CopiedSuffix ==
  <<" ", "c", "o", "p", "i", "e", "d", " ", "t", "o", " ", "c", "l", "i",
    "p", "b", "o", "a", "r", "d", "!">>

NoArgs ==
  [input |-> <<>>, style |-> "Default", copy_to_clipboard |-> FALSE,
   datetime_format |-> <<>>, date_format |-> <<>>, time_format |-> <<>>,
   help_style |-> FALSE]

NoLocal == [naive |-> ZeroDateTime, offset |-> 0]

\* What table.printstd() writes: the titles and the rows of STYLE_HELP.
TableOutput ==
  [kind |-> "table",
   titles |-> <<"Style", "Alias", "Discord Format", "Output (12-hour clock)",
                "Output (24-hour clock)">>,
   rows |-> STYLE_HELP]

\* println!("Formatting: {:?}", datetime)
FormattingLine(d) == [kind |-> "formatting", datetime |-> d]

\* A line of plain text.
TextLine(t) == [kind |-> "text", text |-> t]

\* The state at process start, apart from the command line.
Start ==
  /\ zone \in Zones
  /\ pc = "cli_parse"
  /\ args = NoArgs
  /\ now = 0
  /\ datetime = Err("")
  /\ local = NoLocal
  /\ unix = 0
  /\ formatted = <<>>
  /\ stdout = <<>>
  /\ clipboard = [written |-> FALSE, contents |-> <<>>]
  /\ exit = "running"

Init == argv \in Argvs /\ Start

StyleInit == argv \in StyleArgvs /\ Start

\* Cli::parse(): the style token goes through Style::parse, the input
\* conflicts with --help-style, is required without it and defaults to the
\* empty string with it.  Any failure ends the process with a usage error.
CliParse ==
  /\ pc = "cli_parse"
  /\ LET st == parse(argv.style) IN
     IF ~st.ok
          \/ (argv.help_style /\ argv.input.present)
          \/ (~argv.help_style /\ ~argv.input.present)
     THEN /\ pc' = "exited"
          /\ exit' = "usage_error"
          /\ args' = args
     ELSE /\ pc' = "help_style"
          /\ exit' = exit
          /\ args' = [input |-> IF argv.input.present THEN argv.input.text
                                ELSE <<>>,
                      style |-> st.style,
                      copy_to_clipboard |-> argv.copy_to_clipboard,
                      datetime_format |-> argv.datetime_format,
                      date_format |-> argv.date_format,
                      time_format |-> argv.time_format,
                      help_style |-> argv.help_style]
  /\ UNCHANGED <<argv, zone, now, datetime, local, unix, formatted, stdout,
                 clipboard>>

\* main, "Special style help command": the table is printed when the flag
\* is set; control continues below in either case.
HelpStyle ==
  /\ pc = "help_style"
  /\ stdout' = IF args.help_style THEN Append(stdout, TableOutput) ELSE stdout
  /\ pc' = "parse_date"
  /\ UNCHANGED <<argv, zone, args, now, datetime, local, unix, formatted,
                 clipboard, exit>>

\* main, "Parse date", once get_naive_datetime has returned r having read
\* the clock, if at all, at n: `?` ends the process on an error.
ParsedDate(r, n) ==
  /\ now' = IF r.read_clock THEN n ELSE now
  /\ datetime' = r.res
  /\ pc' = IF ~r.panic /\ r.res.ok THEN "from_local" ELSE "exited"
  /\ exit' = IF r.panic THEN "panic_and_hms_opt"
             ELSE IF r.res.ok THEN exit ELSE "parse_error"

\* main, "Parse date": args.get_naive_datetime()? at some instant n.
ParseDate ==
  /\ pc = "parse_date"
  /\ \E n \in Nows : ParsedDate(get_naive_datetime(args, LocalToday(zone, n)), n)
  /\ UNCHANGED <<argv, zone, args, local, unix, formatted, stdout, clipboard>>

\* main, the unwrap of the LocalResult r and the "Formatting:" line.
UnwrapLocal(r) ==
  IF r.kind = "Single"
  THEN /\ local' = r.value
       /\ stdout' = Append(stdout, FormattingLine(r.value))
       /\ pc' = "timestamp"
       /\ exit' = exit
  ELSE /\ local' = local
       /\ stdout' = stdout
       /\ pc' = "exited"
       /\ exit' = "panic_from_local_datetime"

\* main: Local::from_offset(..), from_local_datetime(..).unwrap() and the
\* "Formatting:" line.  FixedOffset::east_opt(0) is Some.
FromLocal ==
  /\ pc = "from_local"
  /\ east_opt(0).some
  /\ UnwrapLocal(from_local_datetime(
       Local_from_offset(east_opt(0).offset, zone), datetime.dt))
  /\ UNCHANGED <<argv, zone, args, now, datetime, unix, formatted, clipboard>>

\* main, "Get timestamp and formatted string".
Timestamp ==
  /\ pc = "timestamp"
  /\ unix' = MillisDiv1000(timestamp_millis(local))
  /\ formatted' = get_formatted(args.style, unix')
  /\ pc' = "output"
  /\ UNCHANGED <<argv, zone, args, now, datetime, local, stdout, clipboard,
                 exit>>

\* main, "Output", writing the clipboard whether or not the flag is set.
Output_AlwaysCopies ==
  /\ pc = "output"
  /\ clipboard' = [written |-> TRUE, contents |-> formatted]
  /\ stdout' = Append(stdout, TextLine(IF args.copy_to_clipboard
                                       THEN formatted \o CopiedSuffix
                                       ELSE formatted))
  /\ exit' = "ok"
  /\ pc' = "exited"
  /\ UNCHANGED <<argv, zone, args, now, datetime, local, unix, formatted>>

\* main, "Output".  The clipboard context may fail to open and the write
\* may fail; either unwrap then panics before anything is printed.
Output ==
  /\ pc = "output"
  /\ IF args.copy_to_clipboard
     THEN \E opened \in BOOLEAN, set \in BOOLEAN :
            IF opened /\ set
            THEN /\ clipboard' = [written |-> TRUE, contents |-> formatted]
                 /\ stdout' = Append(stdout, TextLine(formatted \o CopiedSuffix))
                 /\ exit' = "ok"
            ELSE /\ clipboard' = clipboard
                 /\ stdout' = stdout
                 /\ exit' = "panic_clipboard"
     ELSE /\ clipboard' = clipboard
          /\ stdout' = Append(stdout, TextLine(formatted))
          /\ exit' = "ok"
  /\ pc' = "exited"
  /\ UNCHANGED <<argv, zone, args, now, datetime, local, unix, formatted>>

Next ==
  \/ CliParse
  \/ HelpStyle
  \/ ParseDate
  \/ FromLocal
  \/ Timestamp
  \/ Output

Spec == Init /\ [][Next]_vars

\* The same program over the command lines that vary the style token.
StyleSpec == StyleInit /\ [][Next]_vars

(***************************************************************************)
(* Properties                                                              *)
(***************************************************************************)
\* The command line was accepted: args holds the Cli value.
Accepted == pc # "cli_parse" /\ exit # "usage_error"

\* get_naive_datetime has returned: datetime holds its result.
Returned == Accepted /\ pc \notin {"help_style", "parse_date"}

\* from_local_datetime(..).unwrap() has succeeded: local holds its value.
Converted == pc \in {"timestamp", "output"} \/ exit \in {"ok", "panic_clipboard"}

\* unix and formatted have been computed.
Stamped == pc = "output" \/ exit \in {"ok", "panic_clipboard"}

Attempt1 == NaiveDateTime_parse_from_str(args.input, args.datetime_format)

Attempt2 == NaiveDate_parse_from_str(args.input, args.date_format)

Attempt3 == NaiveTime_parse_from_str(args.input, args.time_format)

Midnight == [hour |-> 0, minute |-> 0, second |-> 0, nano |-> 0]

\* C1: get_naive_datetime returns the result of the first of the datetime,
\* date and time attempts that succeeds, whatever the later attempts would
\* give; it fails exactly when all three fail, and then with the error of
\* the time attempt.
C1_FirstSuccessWins ==
  Returned =>
    /\ Attempt1.ok => datetime = Ok(Attempt1.dt)
    /\ ~Attempt1.ok /\ Attempt2.ok =>
         datetime.ok /\ DateOf(datetime.dt) = DateOf(Attempt2.dt)
                     /\ TimeOf(datetime.dt) = Midnight
    /\ ~Attempt1.ok /\ ~Attempt2.ok /\ Attempt3.ok =>
         datetime.ok /\ TimeOf(datetime.dt) = TimeOf(Attempt3.dt)
    /\ ~datetime.ok <=> (~Attempt1.ok /\ ~Attempt2.ok /\ ~Attempt3.ok)
    /\ ~datetime.ok => datetime.err = Attempt3.err
    /\ (exit = "parse_error") <=> ~datetime.ok

\* All three attempts match one input and the datetime attempt, which
\* differs from what the date attempt gives, is the result.
C1_Witness ==
  /\ Returned
  /\ Attempt1.ok /\ Attempt2.ok /\ Attempt3.ok
  /\ TimeOf(Attempt1.dt) # Midnight
  /\ datetime = Ok(Attempt1.dt)

\* The offset the machine's zone has at the wall-clock time dt, written out
\* from the definition of a zone.
ZoneOffsetAtLocal(z, dt) ==
  IF z.dst /\ NaiveSecs(dt) >= At(2018, 3, 25, 3, 0, 0)
           /\ NaiveSecs(dt) < At(2018, 10, 28, 2, 0, 0)
  THEN z.std + 3600 ELSE z.std

\* The wall-clock time dt is skipped or repeated in the machine's zone.
NoSingleOffset(z, dt) ==
  /\ z.dst
  /\ \/ NaiveSecs(dt) \in At(2018, 3, 25, 2, 0, 0)..(At(2018, 3, 25, 3, 0, 0) - 1)
     \/ NaiveSecs(dt) \in At(2018, 10, 28, 2, 0, 0)..(At(2018, 10, 28, 3, 0, 0) - 1)

DefaultFormatsGiven ==
  /\ args.datetime_format = Fmt_DateTime
  /\ args.date_format = Fmt_Date
  /\ args.time_format = Fmt_Time

\* "<t:1543392060:R>"
Markup_1543392060_R ==
  <<"<", "t", ":", "1", "5", "4", "3", "3", "9", "2", "0", "6", "0", ":",
    "R", ">">>

\* C2 as stated, for date-times of whole seconds: on every machine the
\* epoch is the naive date-time read as UTC, and "2018-11-28 09:01:00"
\* gives 1543392060.
C2_Original ==
  /\ (Stamped /\ datetime.dt.nano = 0) => unix = NaiveSecs(datetime.dt)
  /\ (Stamped /\ args.input = In_DateTime /\ DefaultFormatsGiven) =>
       unix = 1543392060

\* C2 amended: the naive date-time is read in the machine's zone.  The
\* instant is (naive date-time as UTC seconds - the zone's offset at that
\* wall-clock time) seconds plus the milliseconds of the parsed time, unix
\* is that millisecond count divided by 1000 toward zero, and the conversion
\* panics exactly when the wall-clock time is skipped or repeated in the
\* zone.  "2018-11-28 09:01:00" gives 1543395660 - offset: 1543395660 at
\* offset zero and 1543392060, rendered <t:1543392060:R> by relative-time,
\* at offset +01:00.
C2_LocalZoneEpoch ==
  LET off == ZoneOffsetAtLocal(zone, datetime.dt)
      ms  == datetime.dt.nano \div 1000000
      q   == (NaiveSecs(datetime.dt) - off) + ms \div 1000
      r   == ms % 1000
  IN  /\ Converted => /\ ~NoSingleOffset(zone, datetime.dt)
                      /\ local = [naive |-> datetime.dt, offset |-> off]
      /\ exit = "panic_from_local_datetime" => NoSingleOffset(zone, datetime.dt)
      /\ (Returned /\ datetime.ok /\ pc # "from_local"
            /\ NoSingleOffset(zone, datetime.dt)) =>
           exit = "panic_from_local_datetime"
      /\ Stamped => unix = IF q < 0 /\ r > 0 THEN q + 1 ELSE q
      /\ (Stamped /\ args.input = In_DateTime /\ DefaultFormatsGiven) =>
           /\ unix = 1543395660 - off
           /\ off = 0 => unix = 1543395660
           /\ off = 3600 => unix = 1543392060
           /\ (off = 3600 /\ args.style = "RelativeTime") =>
                formatted = Markup_1543392060_R

\* On a machine one hour east of UTC the sample input has been rendered by
\* relative-time.
C2_Witness ==
  /\ exit = "ok"
  /\ args.input = In_DateTime /\ DefaultFormatsGiven
  /\ zone = [std |-> 3600, dst |-> FALSE]
  /\ args.style = "RelativeTime"
  /\ unix = 1543392060
  /\ formatted = Markup_1543392060_R

\* The seven one-character codes and Default's empty code, by variant in
\* declaration order.
CodeByVariant == <<"", "t", "T", "d", "D", "f", "F", "R">>

\* The kebab-case long names, by variant in declaration order.
NameByVariant ==
  <<"default", "short-time", "long-time", "short-date", "long-date",
    "short-date-time", "long-date-time", "relative-time">>

VariantIndex(st) == CHOOSE i \in 1..8 : StyleOrder[i] = st

\* The number a decimal text denotes.
DecimalValue(t) ==
  IF t # <<>> /\ Head(t) = "-" THEN 0 - NumVal(Tail(t), Len(t) - 1)
  ELSE NumVal(t, Len(t))

\* t is the canonical decimal text of an integer: an optional minus sign
\* and digits without a needless leading zero.
IsDecimal(t) ==
  LET d == IF t # <<>> /\ Head(t) = "-" THEN Tail(t) ELSE t IN
  /\ d # <<>>
  /\ \A k \in 1..Len(d) : d[k] \in Digits
  /\ Len(d) > 1 => d[1] # "0"
  /\ (Head(t) = "-") => d # <<"0">>

\* C3: the markup computed for (style, epoch) is "<t:", the decimal text of
\* the epoch, then for Default nothing and for every other style ":" and
\* its one-character code, then ">"; the rendering of 1543392060 agrees
\* with the reference table for every style.
C3_MarkupShape ==
  /\ Stamped =>
       LET n    == Len(formatted)
           tail == IF args.style = "Default" THEN <<">">>
                   ELSE <<":", CodeByVariant[VariantIndex(args.style)], ">">>
           num  == SubSeq(formatted, 4, n - Len(tail))
       IN  /\ n >= 3 + 1 + Len(tail)
           /\ SubSeq(formatted, 1, 3) = <<"<", "t", ":">>
           /\ SubSeq(formatted, n - Len(tail) + 1, n) = tail
           /\ IsDecimal(num)
           /\ DecimalValue(num) = unix
           /\ formatted = get_formatted(args.style, unix)
  /\ \A i \in 1..8 :
       get_formatted(StyleOrder[i], 1543392060) = STYLE_HELP[i].format

\* A negative epoch has been rendered in a style that carries a code.
C3_Witness ==
  /\ exit = "ok"
  /\ unix < 0
  /\ args.style = "LongDateTime"
  /\ formatted[Len(formatted) - 1] = "F"

\* C4: the long name of every style and the code of every style but
\* Default parse to that style, so an accepted token is the name or the
\* code of the style it resolved to; the seven codes are one character
\* each and pairwise distinct, and Default's code is empty.
C4_NameAndCodeAgree ==
  /\ \A i \in 1..8 :
       /\ parse(NameByVariant[i]) = StyleOk(StyleOrder[i])
       /\ code(StyleOrder[i]) = CodeByVariant[i]
       /\ i # 1 => parse(code(StyleOrder[i])) = StyleOk(StyleOrder[i])
  /\ code("Default") = ""
  /\ \A a \in Style, b \in Style : (a # b) => code(a) # code(b)
  /\ Accepted =>
       argv.style \in {NameByVariant[VariantIndex(args.style)],
                       CodeByVariant[VariantIndex(args.style)]}

\* A run given the code R has completed in the style relative-time.
C4_Witness ==
  /\ exit = "ok"
  /\ argv.style = "R"
  /\ args.style = "RelativeTime"

\* The fifteen valid tokens.
ValidTokens ==
  {NameByVariant[i] : i \in 1..8} \cup {CodeByVariant[i] : i \in 2..8}

\* C5: a token outside the fifteen valid ones makes Style::parse fail with
\* a message that lists the fifteen, and a run given such a token ends with
\* a usage error having printed nothing and not written the clipboard.
C5_UnknownTokenFails ==
  /\ \A tok \in Tokens \ ValidTokens :
       /\ ~parse(tok).ok
       /\ Len(parse(tok).msg) = 15
       /\ {parse(tok).msg[k] : k \in 1..15} = ValidTokens
  /\ Tokens \ ValidTokens = {"bogus", "", "Default", "r"}
  /\ (argv.style \notin ValidTokens /\ pc # "cli_parse") =>
       /\ pc = "exited"
       /\ exit = "usage_error"
       /\ stdout = <<>>
       /\ ~clipboard.written
       /\ formatted = <<>>

\* A run with --help-style and the empty style token has ended with a
\* usage error.
C5_Witness ==
  /\ argv.style = ""
  /\ argv.help_style
  /\ ~argv.input.present
  /\ exit = "usage_error"
  /\ stdout = <<>>

\* C6 as stated: a run with --help-style prints the table, attempts no
\* date/time parse and ends successfully.
C6_HelpStyleSucceeds ==
  (Accepted /\ args.help_style /\ pc = "exited") =>
    /\ exit = "ok"
    /\ stdout = <<TableOutput>>
    /\ datetime = Err("")

\* C7 as stated: a successful run writes exactly one line.
C7_Original ==
  exit = "ok" =>
    stdout = <<TextLine(IF args.copy_to_clipboard
                        THEN formatted \o CopiedSuffix ELSE formatted)>>

\* C7 amended: a run that ends successfully ran without --help-style and
\* wrote exactly two lines, "Formatting: " with the zoned date-time and then
\* the markup (followed by " copied to clipboard!" when the flag is set, the
\* clipboard then holding exactly the markup); without the flag the
\* clipboard is never written; after a date/time parse failure nothing but
\* a help table has been printed and the clipboard is not written.
C7_TwoLines ==
  /\ exit = "ok" =>
       /\ ~args.help_style
       /\ stdout = <<FormattingLine(local),
                     TextLine(IF args.copy_to_clipboard
                              THEN formatted \o CopiedSuffix ELSE formatted)>>
       /\ args.copy_to_clipboard =>
            clipboard = [written |-> TRUE, contents |-> formatted]
  /\ (Accepted /\ ~args.copy_to_clipboard) => ~clipboard.written
  /\ ~Accepted => ~clipboard.written
  /\ exit = "parse_error" =>
       /\ ~clipboard.written
       /\ \A k \in 1..Len(stdout) : stdout[k].kind = "table"

\* A run with --copy-to-clipboard has ended successfully.
C7_Witness ==
  /\ exit = "ok"
  /\ args.copy_to_clipboard
  /\ clipboard.written
  /\ Len(stdout) = 2

\* C8: when the datetime attempt fails and the date attempt succeeds the
\* result is the parsed date at 00:00:00 and the unwrap has not panicked.
C8_DateAtMidnight ==
  (Returned /\ ~Attempt1.ok /\ Attempt2.ok) =>
    /\ exit # "panic_and_hms_opt"
    /\ datetime = Ok(NaiveDateTimeNew(DateOf(Attempt2.dt), Midnight))

\* "2018-11-28" went through the date attempt under the default formats.
C8_Witness ==
  /\ Returned
  /\ args.input = In_Date /\ DefaultFormatsGiven
  /\ ~Attempt1.ok /\ Attempt2.ok
  /\ datetime.ok
  /\ datetime.dt.day = 28 /\ datetime.dt.hour = 0

\* The wall-clock second count of the machine at the UTC instant utc,
\* written out from the definition of a zone.
WallClock(z, utc) ==
  utc + (IF z.dst /\ utc >= At(2018, 3, 25, 2, 0, 0) - z.std
                  /\ utc < At(2018, 10, 28, 2, 0, 0) - z.std
         THEN z.std + 3600 ELSE z.std)

\* C9: when only the time attempt succeeds the result has the parsed time
\* of day and the date of the machine's wall clock at the call.
C9_LocalToday ==
  (Returned /\ ~Attempt1.ok /\ ~Attempt2.ok /\ Attempt3.ok) =>
    LET d == DaysFromCivil(datetime.dt.year, datetime.dt.month, datetime.dt.day)
    IN  /\ datetime.ok
        /\ TimeOf(datetime.dt) = TimeOf(Attempt3.dt)
        /\ datetime.dt.day \in 1..DaysInMonth(datetime.dt.year, datetime.dt.month)
        /\ datetime.dt.month \in 1..12
        /\ d * 86400 <= WallClock(zone, now)
        /\ WallClock(zone, now) < (d + 1) * 86400

\* The time attempt ran while the local date was a day ahead of the UTC date.
C9_Witness ==
  /\ Returned
  /\ ~Attempt1.ok /\ ~Attempt2.ok /\ Attempt3.ok
  /\ datetime.ok
  /\ now = At(2018, 11, 28, 23, 30, 0)
  /\ DateOf(datetime.dt) = [year |-> 2018, month |-> 11, day |-> 29]

\* C10 as stated: unix is the floor of the millisecond timestamp divided by
\* 1000, which is the whole seconds of the instant.
C10_FloorOfMillis ==
  Stamped =>
    unix = timestamp(local) + (local.naive.nano \div 1000000) \div 1000

====
